---------------------------- MODULE Spec2Model ----------------------------
(***************************************************************************)
(* Model of src/src/models/beta_vae.py: the betaVAE class, its constructor *)
(* and its loss function `criterion`.                                      *)
(*                                                                         *)
(* Numbers.  A tensor element is an IEEE binary32 number (torch's default *)
(* dtype), modelled as a triple:                                           *)
(*   <<"fin", m, e>>   the finite value m * 2^e, with m an odd integer,    *)
(*                     |m| < 2^24, -149 <= e, |m * 2^e| < 2^128; zero is   *)
(*                     <<"fin", 0, 0>>;                                    *)
(*   <<"inf", 1, 0>>   +inf     <<"inf", -1, 0>>   -inf                    *)
(*   <<"nan", 0, 0>>   NaN.                                                *)
(* Every operation rounds its exact result to the nearest binary32 number, *)
(* ties to even, with gradual underflow and overflow to inf, and follows   *)
(* the IEEE rules for inf and NaN (inf - inf = NaN, 0 * inf = NaN, NaN is  *)
(* absorbing).  The sign of zero is not modelled (-0 and +0 are one        *)
(* value).  A Python float (beta) enters an operation with a tensor as its *)
(* nearest binary32 number, and is modelled by that number.                *)
(*                                                                         *)
(* Tensors.  A tensor is a record [shape, data]: shape is the sequence of  *)
(* its dimensions and data its elements in row-major order.  A 0-dim       *)
(* tensor (what torch.mean returns) has shape << >> and one element.       *)
(***************************************************************************)
EXTENDS Integers, Sequences, FiniteSets, TLC

VARIABLES
    pc,               \* where the caller is: "start", "constructing", "failed",
                      \* "idle", "batch", "done"
    hyperparameters,  \* the mapping handed to the constructor
    self,             \* the attributes of the betaVAE instance set so far
    X, X_hat,         \* the tensors the training loop holds and passes
    mean, std,        \*   to criterion
    losses,           \* the dictionary returned by the last criterion call
    raised            \* the exception that reached the caller, or NoExc

vars == <<pc, hyperparameters, self, X, X_hat, mean, std, losses, raised>>

---------------------------------------------------------------------------
(* Bounds of the model.                                                    *)

\* Largest batch size N.
MaxN == 2
\* Largest number N * Z of entries of the mean (and std) tensor.
MaxCells == 2

---------------------------------------------------------------------------
(* Floating point numbers (binary32).                                      *)

Fin(m, e) == <<"fin", m, e>>

NaN == <<"nan", 0, 0>>
PosInf == <<"inf", 1, 0>>
NegInf == <<"inf", -1, 0>>
Zero == Fin(0, 0)
One == Fin(1, 0)
Two == Fin(1, 1)
MinusOne == Fin(-1, 0)
Half == Fin(1, -1)
\* 0.1 and 0.9 as binary32 numbers: 13421773 * 2^-27 and 7549747 * 2^-23
Tenth == Fin(13421773, -27)
NineTenths == Fin(7549747, -23)

Abs(i) == IF i < 0 THEN -i ELSE i

Sgn(i) == IF i < 0 THEN -1 ELSE IF i = 0 THEN 0 ELSE 1

Max(i, j) == IF i >= j THEN i ELSE j

\* Number of bits of n, for 0 <= n < 2^w and w a power of two.
RECURSIVE BitLenIn(_, _)
BitLenIn(n, w) ==
    IF w = 1 THEN n
    ELSE LET h == w \div 2
         IN IF n >= 2 ^ h THEN h + BitLenIn(n \div (2 ^ h), h)
            ELSE BitLenIn(n, h)

\* Number of bits of n >= 0.
BitLen(n) == BitLenIn(n, 32)

\* The finite number m * 2^e with the factors of two moved out of m.
RECURSIVE Canon(_, _)
Canon(m, e) ==
    IF m = 0 THEN Zero
    ELSE IF m % 2 = 0 THEN Canon(m \div 2, e + 1)
    ELSE Fin(m, e)

IsNaN(a) == a[1] = "nan"
IsInf(a) == a[1] = "inf"
IsFinite(a) == a[1] = "fin"
IsZero(a) == a = Zero

\* Sign of a number that is not NaN: -1, 0 or 1.
SignOf(a) == Sgn(a[2])

\* The binary32 number nearest to s * (M + delta) * 2^E, ties to even, where
\* s is 1 or -1, 0 <= M < 2^30, and delta is 0, or some value strictly
\* between 0 and 1 when sticky holds (M then has at least 26 bits).  The
\* result has 24 significant bits, fewer below 2^-126 (the quantum is never
\* under 2^-149), and is inf from 2^128 on.
RoundPack(s, M, E, sticky) ==
    IF M = 0 THEN Zero
    ELSE
    LET nb == BitLen(M)
        Et == Max(E + nb - 24, -149)
        sh == Et - E
    IN IF sh <= 0
       THEN IF nb + E > 128 THEN <<"inf", s, 0>> ELSE Canon(s * M, E)
       ELSE IF sh > nb THEN Zero
       ELSE LET q == M \div (2 ^ sh)
                r == M % (2 ^ sh)
                half == 2 ^ (sh - 1)
                up == r > half \/ (r = half /\ (sticky \/ q % 2 = 1))
                qr == IF up THEN q + 1 ELSE q
            IN IF BitLen(qr) + Et > 128 THEN <<"inf", s, 0>>
               ELSE Canon(s * qr, Et)

\* x + y for finite non-zero x = <<"fin", m1, e1>>, y = <<"fin", m2, e2>>
\* with e1 >= e2.  When the sum fits 30 bits at the exponent e2 it is formed
\* exactly and rounded; otherwise |x| > |y|: x is scaled to 29 bits and y is
\* cut at the same exponent, the bits cut off being kept as sticky.
AddOrdered(m1, e1, m2, e2) ==
    LET d == e1 - e2
        nb1 == BitLen(Abs(m1))
    IN IF nb1 + d <= 29
       THEN LET sum == m1 * (2 ^ d) + m2
            IN RoundPack(Sgn(sum), Abs(sum), e2, FALSE)
       ELSE LET bx == Abs(m1) * (2 ^ (29 - nb1))
                ex == e1 - (29 - nb1)
                dy == ex - e2
                by == IF dy > 24 THEN 0 ELSE Abs(m2) \div (2 ^ dy)
                lost == IF dy > 24 THEN TRUE ELSE Abs(m2) % (2 ^ dy) # 0
            IN IF Sgn(m1) = Sgn(m2)
               THEN RoundPack(Sgn(m1), bx + by, ex, lost)
               ELSE IF lost
                    THEN RoundPack(Sgn(m1), bx - by - 1, ex, TRUE)
                    ELSE RoundPack(Sgn(m1), bx - by, ex, FALSE)

\* a + b
fadd(a, b) ==
    IF IsNaN(a) \/ IsNaN(b) THEN NaN
    ELSE IF IsInf(a) /\ IsInf(b) THEN (IF a = b THEN a ELSE NaN)
    ELSE IF IsInf(a) THEN a
    ELSE IF IsInf(b) THEN b
    ELSE IF IsZero(a) THEN b
    ELSE IF IsZero(b) THEN a
    ELSE IF a[3] >= b[3] THEN AddOrdered(a[2], a[3], b[2], b[3])
    ELSE AddOrdered(b[2], b[3], a[2], a[3])

\* -a
fneg(a) == <<a[1], -a[2], a[3]>>

\* |a|
fabs(a) == <<a[1], Abs(a[2]), a[3]>>

\* x * y for significands 0 < m1, m2 < 2^24 whose product needs more than
\* 30 bits: the 48-bit product is formed from 12-bit halves as H * 2^24 + L,
\* and its leading 29 bits are rounded, the rest being kept as sticky.
MulWide(s, m1, m2, E) ==
    LET a1 == m1 \div 4096
        a0 == m1 % 4096
        b1 == m2 \div 4096
        b0 == m2 % 4096
        mid == a1 * b0 + a0 * b1
        low == (mid % 4096) * 4096 + a0 * b0
        H == a1 * b1 + mid \div 4096 + low \div 16777216
        L == low % 16777216
        k == 29 - BitLen(H)
    IN IF k >= 24
       THEN RoundPack(s, H * 16777216 + L, E, FALSE)
       ELSE RoundPack(s, H * (2 ^ k) + L \div (2 ^ (24 - k)), E + 24 - k,
                      L % (2 ^ (24 - k)) # 0)

\* a * b
fmul(a, b) ==
    IF IsNaN(a) \/ IsNaN(b) THEN NaN
    ELSE IF IsInf(a) \/ IsInf(b)
         THEN (IF IsZero(a) \/ IsZero(b) THEN NaN
               ELSE <<"inf", SignOf(a) * SignOf(b), 0>>)
    ELSE IF IsZero(a) \/ IsZero(b) THEN Zero
    ELSE LET s == SignOf(a) * SignOf(b)
             m1 == Abs(a[2])
             m2 == Abs(b[2])
         IN IF BitLen(m1) + BitLen(m2) <= 30
            THEN RoundPack(s, m1 * m2, a[3] + b[3], FALSE)
            ELSE MulWide(s, m1, m2, a[3] + b[3])

\* Long division of a significand by a count k: the quotient q * 2^e is
\* extended bit by bit until the remainder r is 0 or q has 27 bits.
RECURSIVE DivExtend(_, _, _, _)
DivExtend(q, r, e, k) ==
    IF r = 0 \/ q >= 67108864 THEN <<q, r, e>>
    ELSE DivExtend(2 * q + (2 * r) \div k, (2 * r) % k, e - 1, k)

\* a / k for a count k >= 0 (0/0 is NaN, x/0 is +-inf)
fdiv(a, k) ==
    IF IsNaN(a) THEN NaN
    ELSE IF k = 0 THEN (IF IsZero(a) THEN NaN ELSE <<"inf", SignOf(a), 0>>)
    ELSE IF IsInf(a) \/ IsZero(a) THEN a
    ELSE LET d == DivExtend(Abs(a[2]) \div k, Abs(a[2]) % k, a[3], k)
         IN RoundPack(SignOf(a), d[1], d[3], d[2] # 0)

\* a <= b for finite a, b of one sign s (1 or -1), neither zero
MagLe(a, b) ==
    LET ta == BitLen(Abs(a[2])) + a[3]
        tb == BitLen(Abs(b[2])) + b[3]
        lo == IF a[3] <= b[3] THEN a[3] ELSE b[3]
    IN IF ta # tb THEN ta < tb
       ELSE Abs(a[2]) * (2 ^ (a[3] - lo)) <= Abs(b[2]) * (2 ^ (b[3] - lo))

\* a <= b (false when either is NaN)
fle(a, b) ==
    IF IsNaN(a) \/ IsNaN(b) THEN FALSE
    ELSE IF a = b THEN TRUE
    ELSE IF a = NegInf \/ b = PosInf THEN TRUE
    ELSE IF a = PosInf \/ b = NegInf THEN FALSE
    ELSE IF SignOf(a) # SignOf(b) THEN SignOf(a) < SignOf(b)
    ELSE IF SignOf(a) = 1 THEN MagLe(a, b)
    ELSE MagLe(b, a)

\* torch.log on the arguments the model feeds it, rounded to binary32:
\* log(0) = -inf, log(1) = 0, log(1/4) = -1.3862943649291992 =
\* -1453635 * 2^-20.
torch_log(a) ==
    IF a = Zero THEN NegInf
    ELSE IF a = Fin(1, -2) THEN Fin(-1453635, -20)
    ELSE IF a = One THEN Zero
    ELSE NaN

---------------------------------------------------------------------------
(* Tensors.                                                                *)

RECURSIVE Prod(_)
Prod(s) == IF s = << >> THEN 1 ELSE Head(s) * Prod(Tail(s))

\* The sum of the elements of s, accumulated from the first to the last.
RECURSIVE SumFirst(_, _)
SumFirst(s, k) == IF k = 0 THEN Zero ELSE fadd(SumFirst(s, k - 1), s[k])

SumSeq(s) == SumFirst(s, Len(s))

Tensor(shape, data) == [shape |-> shape, data |-> data]

\* Number of elements of one sample (all the axes but the first).
RowLen(t) == Prod(Tail(t.shape))

\* Element j of sample i (both 1-based) of a tensor whose first axis is the
\* batch.
At(t, i, j) == t.data[(i - 1) * RowLen(t) + j]

\* torch.mean(t): the 0-dim tensor holding the arithmetic mean of all elements.
torch_mean(t) == Tensor(<< >>, <<fdiv(SumSeq(t.data), Len(t.data))>>)

\* -t
t_neg(t) == Tensor(t.shape, [i \in 1..Len(t.data) |-> fneg(t.data[i])])

\* c * t for a Python number c
t_scale(c, t) == Tensor(t.shape, [i \in 1..Len(t.data) |-> fmul(c, t.data[i])])

\* a + b for tensors of one shape
t_add(a, b) == Tensor(a.shape, [i \in 1..Len(a.data) |-> fadd(a.data[i], b.data[i])])

---------------------------------------------------------------------------
(* Exceptions and results of calls.                                        *)

NoExc == [type |-> "none", origin |-> "none"]
DimensionError(origin) == [type |-> "DimensionError", origin |-> origin]
KeyError(origin) == [type |-> "KeyError", origin |-> origin]

NoTensor == Tensor(<<0>>, << >>)

\* What a call hands back: the exception it raised, or its value.
Returns(v) == [exc |-> NoExc, val |-> v]
Raises(e) == [exc |-> e, val |-> NoTensor]

---------------------------------------------------------------------------
(* The helpers of the base class VAE (vae.py, not among the sources):      *)
(* modelled from the specification.                                        *)

\* Per-sample data fidelity: the Gaussian log-likelihood of X under X_hat up
\* to constants, -sum((X - X_hat)^2) over the axes of one sample; it is at
\* its maximum 0 for a perfect reconstruction.
SqErr(x, y) == LET diff == fadd(x, fneg(y)) IN fmul(diff, diff)

VAE_data_fidelity_loss(x, x_hat) ==
    IF x.shape # x_hat.shape
    THEN Raises(DimensionError("_data_fidelity_loss"))
    ELSE Returns(Tensor(<<x.shape[1]>>,
            [i \in 1..x.shape[1] |->
                fneg(SumSeq([j \in 1..RowLen(x) |->
                        SqErr(At(x, i, j), At(x_hat, i, j))]))]))

\* Per-sample KL divergence of N(mean, std^2) from N(0, I):
\* 1/2 * sum(std^2 + mean^2 - 1 - log(std^2)) over the latent axis.
KLTerm(m, s) ==
    LET s2 == fmul(s, s)
    IN fadd(fadd(fadd(s2, fmul(m, m)), fneg(One)), fneg(torch_log(s2)))

VAE_kl_divergence_loss(mu, sd) ==
    IF mu.shape # sd.shape
    THEN Raises(DimensionError("_kl_divergence_loss"))
    ELSE Returns(Tensor(<<mu.shape[1]>>,
            [i \in 1..mu.shape[1] |->
                fmul(Half, SumSeq([j \in 1..RowLen(mu) |->
                        KLTerm(At(mu, i, j), At(sd, i, j))]))]))

\* VAE.__init__: builds the network from the architecture; it does not read
\* hyperparameters["beta"], which "exists only in this VAE variation".
VAE_init(obj) == [vae |-> TRUE]

---------------------------------------------------------------------------
(* betaVAE                                                                 *)

NoInstance == [k \in {} |-> TRUE]
NoReport == [k \in {} |-> NoTensor]

ReportKeys == {"data_fidelity", "kl-divergence", "beta_kl-divergence", "loss"}

\* Variants of line 63 with one slip each: the fidelity term not negated,
\* beta left out, the KL term subtracted.
PerSampleLoss_NotNegated(data_fidelity_loss, kl_divergence_loss, beta) ==
    t_add(data_fidelity_loss, t_scale(beta, kl_divergence_loss))

PerSampleLoss_NoBeta(data_fidelity_loss, kl_divergence_loss, beta) ==
    t_add(t_neg(data_fidelity_loss), kl_divergence_loss)

PerSampleLoss_KLSubtracted(data_fidelity_loss, kl_divergence_loss, beta) ==
    t_add(t_neg(data_fidelity_loss), t_neg(t_scale(beta, kl_divergence_loss)))

\* line 63: loss = -data_fidelity_loss + self.beta * kl_divergence_loss
PerSampleLoss(data_fidelity_loss, kl_divergence_loss, beta) ==
    t_add(t_neg(data_fidelity_loss), t_scale(beta, kl_divergence_loss))

\* Variants of lines 64-70 with one slip each: the weighted KL entry computed
\* without beta, the loss left as the per-sample vector.
Report_UnscaledKL(data_fidelity_loss, kl_divergence_loss, beta) ==
    [k \in ReportKeys |->
        CASE k = "data_fidelity" -> torch_mean(data_fidelity_loss)
          [] k = "kl-divergence" -> torch_mean(kl_divergence_loss)
          [] k = "beta_kl-divergence" -> torch_mean(kl_divergence_loss)
          [] k = "loss" ->
                torch_mean(PerSampleLoss(data_fidelity_loss, kl_divergence_loss, beta))]

Report_LossNotReduced(data_fidelity_loss, kl_divergence_loss, beta) ==
    [k \in ReportKeys |->
        CASE k = "data_fidelity" -> torch_mean(data_fidelity_loss)
          [] k = "kl-divergence" -> torch_mean(kl_divergence_loss)
          [] k = "beta_kl-divergence" -> torch_mean(t_scale(beta, kl_divergence_loss))
          [] k = "loss" -> PerSampleLoss(data_fidelity_loss, kl_divergence_loss, beta)]

\* lines 63-70: the loss reduced over the batch (line 64) and the dictionary
\* criterion returns (lines 67-70).
Report(data_fidelity_loss, kl_divergence_loss, beta) ==
    [k \in ReportKeys |->
        CASE k = "data_fidelity" -> torch_mean(data_fidelity_loss)
          [] k = "kl-divergence" -> torch_mean(kl_divergence_loss)
          [] k = "beta_kl-divergence" -> torch_mean(t_scale(beta, kl_divergence_loss))
          [] k = "loss" ->
                torch_mean(PerSampleLoss(data_fidelity_loss, kl_divergence_loss, beta))]

\* A variant of criterion that catches a helper's exception and returns a
\* report of NaNs in its place.
criterion_Catching(obj, x, x_hat, mu, sd) ==
    LET dfl == VAE_data_fidelity_loss(x, x_hat)
        kll == VAE_kl_divergence_loss(mu, sd)
    IN IF dfl.exc # NoExc \/ kll.exc # NoExc
       THEN [exc |-> NoExc, val |-> [k \in ReportKeys |-> Tensor(<< >>, <<NaN>>)]]
       ELSE [exc |-> NoExc, val |-> Report(dfl.val, kll.val, obj.beta)]

\* criterion(self, X, X_hat, mean, std), lines 58-71, as a function of its
\* arguments: the exception that leaves it, or the dictionary it returns.
\* No statement of the method catches an exception, so one raised by a
\* helper (line 59, then line 60) leaves the method as it is.
criterion(obj, x, x_hat, mu, sd) ==
    LET dfl == VAE_data_fidelity_loss(x, x_hat)
        kll == VAE_kl_divergence_loss(mu, sd)
    IN IF dfl.exc # NoExc THEN [exc |-> dfl.exc, val |-> NoReport]
       ELSE IF kll.exc # NoExc THEN [exc |-> kll.exc, val |-> NoReport]
       ELSE [exc |-> NoExc, val |-> Report(dfl.val, kll.val, obj.beta)]

---------------------------------------------------------------------------
(* Inputs.                                                                 *)

\* Values of beta a configuration may hold (the constructor validates none).
Betas == {Zero, Tenth, One, Two, MinusOne}

\* The hyperparameters mappings: with a beta entry, or without one.
Hyperparameters == {[k \in {} |-> Zero]} \cup {[beta |-> b] : b \in Betas}

ReconValues == {NineTenths, One}
MeanValues == {Zero, One}
StdValues == {Zero, Half, One}

\* The shapes (N, Z) of the posterior parameters.
LatentShapes == {<<n, z>> : n \in 1..MaxN, z \in 1..MaxCells}

ImageShape(n) == <<n, 1, 1, 1>>

Tensors(shape, values) ==
    {Tensor(shape, d) : d \in [1..Prod(shape) -> values]}

Fill(shape, v) == Tensor(shape, [i \in 1..Prod(shape) |-> v])

BatchShapes == {s \in LatentShapes : s[1] * s[2] <= MaxCells}

\* Shapes X_hat may have against an X of batch size n, and std against a
\* mean of shape sh: the same one, or one that differs in one axis.
ReconShapes(n) == {ImageShape(n), ImageShape(n + 1), <<n, 1, 1, 2>>}
StdShapes(sh) == {sh, <<sh[1], sh[2] + 1>>, <<sh[1] + 1, sh[2]>>}

---------------------------------------------------------------------------
(* The state machine.                                                      *)

Init ==
    /\ pc = "start"
    /\ hyperparameters = [k \in {} |-> Zero]
    /\ self = NoInstance
    /\ X = NoTensor /\ X_hat = NoTensor /\ mean = NoTensor /\ std = NoTensor
    /\ losses = NoReport
    /\ raised = NoExc

\* betaVAE(architecture, hyperparameters, dataset_info), line 31: the
\* constructor of the base class runs first.
InitSuper ==
    /\ pc = "start"
    /\ \E hp \in Hyperparameters : hyperparameters' = hp
    /\ self' = VAE_init(self)
    /\ pc' = "constructing"
    /\ UNCHANGED <<X, X_hat, mean, std, losses, raised>>

\* A variant of line 34 that falls back on beta = 1 when the key is missing
\* (hyperparameters.get("beta", 1)).
InitBeta_Default ==
    /\ pc = "constructing"
    /\ self' = [vae |-> self.vae,
                beta |-> IF "beta" \in DOMAIN hyperparameters
                         THEN hyperparameters.beta ELSE One]
    /\ pc' = "idle"
    /\ raised' = NoExc
    /\ UNCHANGED <<hyperparameters, X, X_hat, mean, std, losses>>

\* line 34: self.beta = hyperparameters["beta"]; a missing key raises
\* KeyError out of the constructor and the caller gets no instance.
InitBeta ==
    /\ pc = "constructing"
    /\ IF "beta" \in DOMAIN hyperparameters
       THEN /\ self' = [vae |-> self.vae, beta |-> hyperparameters.beta]
            /\ pc' = "idle"
            /\ raised' = NoExc
       ELSE /\ self' = NoInstance
            /\ pc' = "failed"
            /\ raised' = KeyError("__init__")
    /\ UNCHANGED <<hyperparameters, X, X_hat, mean, std, losses>>

\* The training loop produces the tensors of one batch: X, X_hat of shape
\* (N, C, H, W) and mean, std of shape (N, Z), with one batch size N for all
\* four.
Batch ==
    /\ pc = "idle"
    /\ \E sh \in BatchShapes :
          /\ X' = Fill(ImageShape(sh[1]), One)
          /\ X_hat' \in Tensors(ImageShape(sh[1]), ReconValues)
          /\ mean' \in Tensors(sh, MeanValues)
          /\ std' \in Tensors(sh, StdValues)
    /\ pc' = "batch"
    /\ UNCHANGED <<hyperparameters, self, losses, raised>>

\* The training loop produces tensors that break the precondition: X_hat of
\* another shape than X, or std of another shape than mean.
BadBatch ==
    /\ pc = "idle"
    /\ \E sh \in BatchShapes :
          \E rs \in ReconShapes(sh[1]), ss \in StdShapes(sh) :
             /\ rs # ImageShape(sh[1]) \/ ss # sh
             /\ X' = Fill(ImageShape(sh[1]), One)
             /\ X_hat' = Fill(rs, One)
             /\ mean' = Fill(sh, Zero)
             /\ std' = Fill(ss, One)
    /\ pc' = "batch"
    /\ UNCHANGED <<hyperparameters, self, losses, raised>>

\* A variant of criterion that scales the KL term in place of a copy: std is
\* overwritten (std.mul_(self.beta)) before the losses are computed.
Criterion_InPlace ==
    /\ pc \in {"batch", "done"}
    /\ std' = (IF mean.shape = std.shape THEN t_scale(self.beta, std) ELSE std)
    /\ LET r == criterion(self, X, X_hat, mean, std)
       IN /\ losses' = r.val
          /\ raised' = r.exc
    /\ pc' = "done"
    /\ UNCHANGED <<hyperparameters, self, X, X_hat, mean>>

\* self.criterion(X, X_hat, mean, std), lines 58-71; the training loop may
\* call it again on the tensors it holds.
Criterion ==
    /\ pc \in {"batch", "done"}
    /\ LET r == criterion(self, X, X_hat, mean, std)
       IN /\ losses' = r.val
          /\ raised' = r.exc
    /\ pc' = "done"
    /\ UNCHANGED <<hyperparameters, self, X, X_hat, mean, std>>

\* The training loop is done with the batch and its report.
Release ==
    /\ pc = "done"
    /\ X' = NoTensor /\ X_hat' = NoTensor /\ mean' = NoTensor /\ std' = NoTensor
    /\ losses' = NoReport
    /\ raised' = NoExc
    /\ pc' = "idle"
    /\ UNCHANGED <<hyperparameters, self>>

Next == InitSuper \/ InitBeta \/ Batch \/ BadBatch \/ Criterion \/ Release

Spec == Init /\ [][Next]_vars

---------------------------------------------------------------------------
(* Vocabulary of the properties.                                           *)

\* The last criterion call returned a report / ended in an exception.
Returned == pc = "done" /\ raised = NoExc
Failed == pc = "done" /\ raised # NoExc

\* A constructed instance exists.
Constructed == pc \in {"idle", "batch", "done"}

\* The number a 0-dim tensor holds.
item(t) == t.data[1]

\* The per-sample values the base helpers return for the tensors held.
fidelity == VAE_data_fidelity_loss(X, X_hat).val.data
kl == VAE_kl_divergence_loss(mean, std).val.data

\* The arithmetic mean of f[1], ..., f[n], summed from the left.
RECURSIVE SumUpTo(_, _)
SumUpTo(f, k) == IF k = 0 THEN Zero ELSE fadd(SumUpTo(f, k - 1), f[k])

MeanOf(f) == fdiv(SumUpTo(f, Len(f)), Len(f))

AllFinite(f) == \A i \in 1..Len(f) : IsFinite(f[i])

\* a < b
flt(a, b) == fle(a, b) /\ a # b

\* The mean of |f[1]|, ..., |f[n]|.
MeanAbs(f) == MeanOf([i \in 1..Len(f) |-> fabs(f[i])])

\* a and b agree up to rounding: |a - b| <= 2^-20 * scale.
Close(a, b, scale) ==
    fle(fabs(fadd(a, fneg(b))), fmul(scale, Fin(1, -20)))

\* In the properties numbers are compared as values (=): a NaN entry equals
\* a NaN entry.

---------------------------------------------------------------------------
(* The properties.                                                         *)

\* C1: whenever criterion returns, for every batch size N >= 1 and every
\* beta, `loss` is the arithmetic mean over the N samples of
\* -fidelity_i + beta * kl_i, where fidelity_i and kl_i are the per-sample
\* values of the base helpers, and `data_fidelity` and `kl-divergence` are
\* the arithmetic means of fidelity_i and of kl_i.
C1_LossIsMeanOfPerSampleTotals ==
    Returned =>
        /\ Len(fidelity) = X.shape[1] /\ Len(kl) = X.shape[1] /\ X.shape[1] >= 1
        /\ item(losses["loss"]) =
              MeanOf([i \in 1..X.shape[1] |->
                        fadd(fneg(fidelity[i]), fmul(self.beta, kl[i]))])
        /\ item(losses["data_fidelity"]) = MeanOf(fidelity)
        /\ item(losses["kl-divergence"]) = MeanOf(kl)

\* A report for a batch of two samples with different totals, under a
\* fractional beta.
C1_Witness ==
    /\ Returned
    /\ X.shape[1] = 2
    /\ self.beta = Tenth
    /\ fidelity[1] # fidelity[2]
    /\ AllFinite(kl) /\ kl[1] # kl[2] /\ kl[1] # Zero
    /\ item(losses["loss"]) # Zero

\* C2 as stated: whenever criterion returns, `beta_kl-divergence` is beta
\* times `kl-divergence` of the same report.
C2_Original ==
    Returned =>
        item(losses["beta_kl-divergence"]) =
            fmul(self.beta, item(losses["kl-divergence"]))

\* C2, amended: whenever criterion returns, `beta_kl-divergence` is beta
\* times `kl-divergence` up to floating point rounding.  When the per-sample
\* KL values are finite the two differ by at most
\* 2^-20 * |beta| * mean(|kl_i|), and they are the same number when beta is
\* 0, 1 or -1; when a KL value is infinite the two are the same infinity,
\* or both NaN.
C2_BetaKLIsBetaTimesKLRounded ==
    Returned =>
        IF AllFinite(kl)
        THEN /\ Close(item(losses["beta_kl-divergence"]),
                      fmul(self.beta, item(losses["kl-divergence"])),
                      fmul(fabs(self.beta), MeanAbs(kl)))
             /\ self.beta \in {Zero, One, MinusOne} =>
                   item(losses["beta_kl-divergence"]) =
                       fmul(self.beta, item(losses["kl-divergence"]))
        ELSE /\ ~IsFinite(item(losses["beta_kl-divergence"]))
             /\ item(losses["beta_kl-divergence"]) =
                   fmul(self.beta, item(losses["kl-divergence"]))

\* A report for two samples of different finite KL values under beta = 0.1,
\* in which rounding makes the two sides differ.
C2_Witness ==
    /\ Returned
    /\ X.shape[1] = 2
    /\ self.beta = Tenth
    /\ AllFinite(kl)
    /\ kl[1] # kl[2]
    /\ item(losses["beta_kl-divergence"]) #
          fmul(self.beta, item(losses["kl-divergence"]))

\* C3 as stated: with beta = 0, for any valid X, X_hat, mean and std (std
\* non-negative), `loss` is the negation of `data_fidelity` and
\* `beta_kl-divergence` is 0.
C3_Original ==
    (Returned /\ self.beta = Zero) =>
        /\ item(losses["loss"]) = fneg(item(losses["data_fidelity"]))
        /\ item(losses["beta_kl-divergence"]) = Zero

\* C3, amended: with beta = 0, when every per-sample KL value is finite,
\* `loss` is the negation of `data_fidelity` and `beta_kl-divergence` is 0;
\* when one is not (a std entry of 0 makes it +inf), 0 * inf is NaN and both
\* `loss` and `beta_kl-divergence` are NaN.
C3_BetaZeroFiniteKL ==
    (Returned /\ self.beta = Zero) =>
        IF AllFinite(kl)
        THEN /\ item(losses["loss"]) = fneg(item(losses["data_fidelity"]))
             /\ item(losses["beta_kl-divergence"]) = Zero
        ELSE /\ IsNaN(item(losses["loss"]))
             /\ IsNaN(item(losses["beta_kl-divergence"]))

\* A report under beta = 0 for finite, non-zero KL values and an imperfect
\* reconstruction.
C3_Witness ==
    /\ Returned
    /\ self.beta = Zero
    /\ AllFinite(kl)
    /\ item(losses["kl-divergence"]) # Zero
    /\ item(losses["data_fidelity"]) # Zero

\* C4 as stated: with beta = 1, whenever criterion returns, `loss` is
\* -`data_fidelity` + `kl-divergence` of the same report and
\* `beta_kl-divergence` equals `kl-divergence`.
C4_Original ==
    (Returned /\ self.beta = One) =>
        /\ item(losses["loss"]) =
              fadd(fneg(item(losses["data_fidelity"])), item(losses["kl-divergence"]))
        /\ item(losses["beta_kl-divergence"]) = item(losses["kl-divergence"])

\* C4, amended: with beta = 1, whenever criterion returns, `loss` is
\* -`data_fidelity` + `kl-divergence` up to floating point rounding: when
\* the per-sample KL values are finite the two differ by at most
\* 2^-20 * mean(|fidelity_i| + |kl_i|), and when one is infinite both are
\* the same infinity; `beta_kl-divergence` is the same number as
\* `kl-divergence`.
C4_BetaOneIsPlainVAERounded ==
    (Returned /\ self.beta = One) =>
        /\ IF AllFinite(kl)
           THEN Close(item(losses["loss"]),
                      fadd(fneg(item(losses["data_fidelity"])),
                           item(losses["kl-divergence"])),
                      fadd(MeanAbs(fidelity), MeanAbs(kl)))
           ELSE /\ IsInf(item(losses["loss"]))
                /\ item(losses["loss"]) =
                      fadd(fneg(item(losses["data_fidelity"])),
                           item(losses["kl-divergence"]))
        /\ item(losses["beta_kl-divergence"]) = item(losses["kl-divergence"])

\* A report under beta = 1 for two samples of different finite KL values, in
\* which rounding makes the two sides differ.
C4_Witness ==
    /\ Returned
    /\ self.beta = One
    /\ X.shape[1] = 2
    /\ AllFinite(kl)
    /\ kl[1] # kl[2]
    /\ item(losses["kl-divergence"]) # Zero
    /\ item(losses["loss"]) #
          fadd(fneg(item(losses["data_fidelity"])), item(losses["kl-divergence"]))

\* C5: whenever criterion returns, the report has exactly the keys
\* data_fidelity, kl-divergence, beta_kl-divergence and loss, and each value
\* is a 0-dim tensor (one scalar), whatever the batch size.
C5_FourScalarEntries ==
    Returned =>
        /\ DOMAIN losses = {"data_fidelity", "kl-divergence", "beta_kl-divergence", "loss"}
        /\ \A k \in DOMAIN losses :
              losses[k].shape = << >> /\ Len(losses[k].data) = 1

\* A report for a batch of more than one sample.
C5_Witness ==
    /\ Returned
    /\ X.shape[1] > 1
    /\ Len(kl) > 1

\* C6: when mean is all zeros and std all ones, of one shape (N, Z), and X
\* and X_hat are of one shape, criterion reports `kl-divergence` = 0, `beta_kl-divergence` = 0 and
\* `loss` = -`data_fidelity`, for every N, Z and beta.
C6_PriorPosteriorHasZeroKL ==
    (/\ pc = "done" /\ X.shape = X_hat.shape
     /\ mean = Fill(mean.shape, Zero) /\ std = Fill(mean.shape, One)) =>
        /\ Returned
        /\ item(losses["kl-divergence"]) = Zero
        /\ item(losses["beta_kl-divergence"]) = Zero
        /\ item(losses["loss"]) = fneg(item(losses["data_fidelity"]))

\* The scenario N = 2, Z = 1, X = X_hat, mean = [0, 0], std = [1, 1],
\* beta = 2.
C6_Witness ==
    /\ Returned
    /\ self.beta = Two
    /\ mean = Tensor(<<2, 1>>, <<Zero, Zero>>)
    /\ std = Tensor(<<2, 1>>, <<One, One>>)
    /\ X = X_hat

\* C7: when every std entry is greater than 0, `kl-divergence` is not
\* negative; if moreover beta is not negative, `beta_kl-divergence` is not
\* negative and `loss` is at least -`data_fidelity`.
C7_KLNonNegative ==
    (Returned /\ \A i \in 1..Len(std.data) : flt(Zero, std.data[i])) =>
        /\ fle(Zero, item(losses["kl-divergence"]))
        /\ fle(Zero, self.beta) =>
              /\ fle(Zero, item(losses["beta_kl-divergence"]))
              /\ fle(fneg(item(losses["data_fidelity"])), item(losses["loss"]))

\* A report for std entries of 1/2 and 1, a mean entry other than 0 and a
\* positive beta, with a positive KL entry.
C7_Witness ==
    /\ Returned
    /\ Len(std.data) = 2
    /\ std.data[1] = Half /\ std.data[2] = One
    /\ mean.data[2] = One
    /\ flt(Zero, self.beta)
    /\ flt(Zero, item(losses["kl-divergence"]))
    /\ flt(fneg(item(losses["data_fidelity"])), item(losses["loss"]))

\* A criterion call: the step from a held batch to the caller having the
\* outcome.
CriterionStep == pc \in {"batch", "done"} /\ pc' = "done"

\* C8: criterion has no side effects.  After every step the beta of a
\* constructed instance is hyperparameters["beta"]; a criterion call leaves
\* the instance, the hyperparameters and the tensors X, X_hat, mean and std
\* as they were; and a second call on the same tensors has the outcome of
\* the first.
C8_NoSideEffects ==
    [][/\ Constructed' => self'.beta = hyperparameters'.beta
       /\ CriterionStep =>
            /\ self' = self
            /\ hyperparameters' = hyperparameters
            /\ X' = X /\ X_hat' = X_hat /\ mean' = mean /\ std' = std
            /\ pc = "done" => (losses' = losses /\ raised' = raised)]_vars

\* A report returned under a beta that changes the KL term, for std entries
\* other than 0 and 1.
C8_Witness ==
    /\ Returned
    /\ self.beta = Two
    /\ std.data[1] = Half
    /\ X # X_hat

\* The exception the helpers raise for the tensors held: that of
\* _data_fidelity_loss (called first), else that of _kl_divergence_loss.
HelperException ==
    IF VAE_data_fidelity_loss(X, X_hat).exc # NoExc
    THEN VAE_data_fidelity_loss(X, X_hat).exc
    ELSE VAE_kl_divergence_loss(mean, std).exc

\* C9: when X and X_hat, or mean and std, have different shapes, the
\* criterion call ends in the helper's dimension error, unchanged; no
\* report is returned and the instance's beta is what it was.
C9_DimensionErrorPropagates ==
    (pc = "done" /\ (X.shape # X_hat.shape \/ mean.shape # std.shape)) =>
        /\ raised = HelperException
        /\ raised.type = "DimensionError"
        /\ losses = NoReport
        /\ self.beta = hyperparameters.beta

\* A call that failed on std of another shape than mean, X and X_hat being
\* of one shape.
C9_Witness ==
    /\ Failed
    /\ X.shape = X_hat.shape
    /\ mean.shape # std.shape
    /\ raised = DimensionError("_kl_divergence_loss")

\* C10: a constructor call whose hyperparameters have no beta entry ends in
\* a KeyError out of the constructor: no instance is produced, so criterion
\* is never called on one without beta; and the lookup of beta comes after
\* the constructor of the base class (no beta attribute, and no KeyError,
\* while the base class's attributes are not set).
C10_MissingBetaFailsConstruction ==
    /\ (pc # "start" /\ "beta" \notin DOMAIN hyperparameters) =>
          /\ pc \in {"constructing", "failed"}
          /\ pc = "failed" => (raised = KeyError("__init__") /\ self = NoInstance)
          /\ losses = NoReport
    /\ Constructed => "beta" \in DOMAIN self
    /\ pc = "constructing" =>
          ("vae" \in DOMAIN self /\ "beta" \notin DOMAIN self /\ raised = NoExc)
    /\ "beta" \in DOMAIN self => "vae" \in DOMAIN self

\* A construction that failed for want of a beta entry.
C10_Witness ==
    /\ pc = "failed"
    /\ "beta" \notin DOMAIN hyperparameters
    /\ raised.type = "KeyError"

===========================================================================
